---- MODULE Spec2Model ----
(***************************************************************************)
(* Model of scantool/diag_l2_kwp6227.c, the L2 driver for the KWP6227      *)
(* (keyword D3 B0) protocol: one connection, its session state block, and  *)
(* the six driver operations startcomms, stopcomms, send, recv, request    *)
(* and timeout.  The operations are synchronous, so each is one action;    *)
(* the answers of the transport and of the allocator are inputs of the     *)
(* action.  The caller (the dispatch framework) makes one call at a time:  *)
(* a call leaves its arguments, result and events in `last', and Return    *)
(* hands control back to the caller, which may then make the next call.    *)
(***************************************************************************)
EXTENDS Integers, Sequences, FiniteSets, TLC

(* ------------------------------ bounds --------------------------------- *)
MaxBlocks == 2      \* session state blocks the allocator hands out in a run
MaxMsgLen == 16     \* longest outbound payload offered to send

(* ------------------------ constants of the driver ---------------------- *)
MAXPAYLOAD == 14            \* msg->len > 14, buf[3 + 14 + 1]
BUFSIZE == 18               \* sizeof(buf)
DEFAULT_BITRATE == 10400
KB1 == 211                  \* 0xd3
KB2 == 176                  \* 0xb0
TESTER_ADDR == 19           \* 0x13
STOP_BYTE == 160            \* 0xa0
IDLE_BYTE == 161            \* 0xa1
STOP_WAIT_MS == 5000
SETTLE_MS == 300
REQUEST_TIMEOUT_MS == 1000
RECV_PAD_MS == 100

\* diag_err.h codes: all negative and pairwise distinct, which is all the
\* driver relies on (rv < 0, rv ? :).
DIAG_ERR_GENERAL == 0 - 1
DIAG_ERR_NOMEM == 0 - 3
DIAG_ERR_INIT_NOTSUPP == 0 - 4
DIAG_ERR_PROTO_NOTSUPP == 0 - 5
DIAG_ERR_TIMEOUT == 0 - 8
DIAG_ERR_BADLEN == 0 - 17
DIAG_ERR_WRONGKB == 0 - 21

NULL == 0                   \* the null session-state reference
NoKB == <<0, 0>>            \* no key bytes
MNULL == "NULL"             \* the null message handle
WILD == "indeterminate"     \* a non-null message handle that was never allocated
SIGSEGV == 0 - 1            \* outcome of a read through a null reference: the process dies

(* ------------------------------ bit helpers ---------------------------- *)
RECURSIVE BitXor(_, _)
BitXor(a, b) ==
    IF a = 0 /\ b = 0 THEN 0
    ELSE (((a % 2) + (b % 2)) % 2) + 2 * BitXor(a \div 2, b \div 2)

RECURSIVE BitAnd(_, _)
BitAnd(a, b) ==
    IF a = 0 \/ b = 0 THEN 0
    ELSE ((a % 2) * (b % 2)) + 2 * BitAnd(a \div 2, b \div 2)

RECURSIVE BitOr(_, _)
BitOr(a, b) ==
    IF a = 0 /\ b = 0 THEN 0
    ELSE (IF a % 2 = 1 \/ b % 2 = 1 THEN 1 ELSE 0) + 2 * BitOr(a \div 2, b \div 2)

\* the 7 rounds of  p ^= c; p <<= 1;  on a uint8_t
RECURSIVE ParityLoop(_, _, _)
ParityLoop(p, c, i) ==
    IF i = 0 THEN p
    ELSE ParityLoop((BitXor(p, c) * 2) % 256, c, i - 1)

\* the loop run for all 8 bits
with_parity_8Rounds(c, eo) ==
    LET p0 == IF eo = "diag_par_o" THEN 1 ELSE 0
        p  == ParityLoop(p0, c, 8)
    IN  BitOr(BitAnd(c, 127), BitAnd(p, 128))

with_parity(c, eo) ==
    LET p0 == IF eo = "diag_par_o" THEN 1 ELSE 0
        p  == ParityLoop(p0, c, 7)
    IN  BitOr(BitAnd(c, 127), BitAnd(p, 128))

(* ------------------------------- events -------------------------------- *)
\* One entry of the record of what a call did: a call of a collaborator
\* (transport, allocator, clock) or a read through the session-state reference.
Ev(name, a, b) == [ev |-> name, a |-> a, b |-> b]


(* ------------------------------- state --------------------------------- *)
VARIABLES
    l1flags,              \* d_l2_conn->diag_link->l1flags, as the set of flags that are set
    diag_l2_p3min,        \* d_l2_conn->diag_l2_p3min
    diag_l2_p4min,        \* d_l2_conn->diag_l2_p4min
    diag_l2_proto_data,   \* d_l2_conn->diag_l2_proto_data: NULL or a block of heap
    diag_l2_speed,        \* d_l2_conn->diag_l2_speed
    diag_l2_kb,           \* <<d_l2_conn->diag_l2_kb1, d_l2_conn->diag_l2_kb2>>
    heap,                 \* the struct diag_l2_kwp6227 blocks handed out so far
    crashed,              \* the process was killed inside a call
    last                  \* the call the caller is looking at: arguments, result, events

vars == <<l1flags, diag_l2_p3min, diag_l2_p4min, diag_l2_proto_data,
          diag_l2_speed, diag_l2_kb, heap, crashed, last>>

conn == <<l1flags, diag_l2_p3min, diag_l2_p4min>>

Live(hp, p) == p # NULL /\ p \in 1..Len(hp) /\ hp[p].state = "live"

\* free(p): the block is released and what it held is gone; frees counts the
\* releases the block has had, freedBy names the operation that released it
Free(hp, p, who) ==
    [hp EXCEPT ![p] = [state |-> "freed", srcaddr |-> 0, dstaddr |-> 0,
                       frees |-> @.frees + 1, freedBy |-> who]]

Pre == [pd |-> diag_l2_proto_data, nblocks |-> Len(heap), speed |-> diag_l2_speed,
        kb |-> diag_l2_kb]

NoMsg == [len |-> 0, dest |-> 0, src |-> 0, data |-> <<>>]
NoArgs == [flags |-> [init |-> "NONE", other |-> FALSE], bitrate |-> 0, target |-> 0, source |-> 0,
           timeout |-> 0, callback |-> "NULL", c |-> 0, eo |-> "none"]

Call(op, msg, args, rv, errval, ret, returned, log, reported) ==
    [op |-> op, msg |-> msg, args |-> args, rv |-> rv, errval |-> errval, ret |-> ret,
     returned |-> returned, log |-> log, reported |-> reported, pre |-> Pre]

Idle == Call("none", NoMsg, NoArgs, 0, 0, MNULL, TRUE, <<>>, NoKB)

Init ==
    /\ l1flags \in SUBSET {"DIAG_L1_DOESFULLINIT", "DIAG_L1_DOESL2CKSUM"}
    /\ diag_l2_p3min = 55
    /\ diag_l2_p4min = 5
    /\ diag_l2_proto_data = NULL
    /\ diag_l2_speed = 0
    /\ diag_l2_kb = NoKB
    /\ heap = <<>>
    /\ crashed = FALSE
    /\ last = [Idle EXCEPT !.pre = [pd |-> NULL, nblocks |-> 0, speed |-> 0, kb |-> <<0, 0>>]]

(* ------------------------------- inputs -------------------------------- *)
MsgAddrs == {0, 122}                 \* msg->dest, msg->src: unset or 0x7a
Peers == {<<16, TESTER_ADDR>>, <<110, 241>>}   \* <<target, source>>: 0x10/0x13, 0x6e/0xf1
Bitrates == {0, 9600}
InitTypes == {"DIAG_L2_TYPE_SLOWINIT", "DIAG_L2_TYPE_FASTINIT",
              "DIAG_L2_TYPE_CARBINIT", "DIAG_L2_TYPE_MONINIT"}
Seeds == {1, 200}
Payload(len, seed) == [i \in 1..len |-> (seed + 13 * i) % 256]

\* what a read through a null or released reference can give: the process is
\* killed, or some byte is read
InvalidReads == {SIGSEGV, 238}
\* the value of an automatic variable that was never assigned
Indeterminate == {MNULL, WILD}
L1Results == {0, DIAG_ERR_GENERAL}

(* -------------------------------- send --------------------------------- *)
\* the upper limit off by one
BadLen_Off(len) == len < 1 \/ len > MAXPAYLOAD + 1

\* msg->len < 1 || msg->len > 14
BadLen(len) == len < 1 \/ len > MAXPAYLOAD

\* the KWP2000 header: the length without the checksum byte
Header_KWP2000(len) == (128 + len) % 256

\* buf[0] = 0x80 + msg->len + 1, stored in a uint8_t
Header(len) == (128 + len + 1) % 256

\* the session's address whenever there is a session
Address_Stored(own, pd, hp, field, e) ==
    IF Live(hp, pd) THEN hp[pd][field]
    ELSE IF own # 0 THEN own
    ELSE e.invalidread

\* msg->dest ? msg->dest : dp->dstaddr  (and the same for src)
Address(own, pd, hp, field, e) ==
    IF own # 0 THEN own
    ELSE IF Live(hp, pd) THEN hp[pd][field]
    ELSE e.invalidread

\* the transport's result dropped
SendResult_Ignored(rv) == 0

\* return rv ? diag_iseterr(rv) : 0
SendResult(rv) == IF rv # 0 THEN rv ELSE 0

dl2p_6227_send(pd, hp, p3min, p4min, msg, e) ==
    LET invalid == (msg.dest = 0 \/ msg.src = 0) /\ ~Live(hp, pd)
        reads == IF msg.dest = 0 \/ msg.src = 0
                 THEN <<Ev("read_proto_data", pd, Live(hp, pd))>> ELSE <<>>
        buf == <<Header(msg.len),
                 Address(msg.dest, pd, hp, "dstaddr", e),
                 Address(msg.src, pd, hp, "srcaddr", e)>> \o SubSeq(msg.data, 1, msg.len)
    IN  IF BadLen(msg.len)
        THEN [rv |-> DIAG_ERR_BADLEN, log |-> <<>>, crashed |-> FALSE]
        ELSE IF invalid /\ e.invalidread = SIGSEGV
        THEN [rv |-> 0, log |-> reads, crashed |-> TRUE]
        ELSE [rv |-> SendResult(e.l1send),
              log |-> reads \o <<Ev("diag_os_millisleep", p3min, 0),
                                 Ev("diag_l1_send", SubSeq(buf, 1, msg.len + 3),
                                    [p4 |-> p4min, rv |-> e.l1send])>>,
              crashed |-> FALSE]

\* the framework's send entry point, which calls the protocol's send
diag_l2_send(pd, hp, p3min, p4min, msg, e) == dl2p_6227_send(pd, hp, p3min, p4min, msg, e)

SendEnv == [invalidread : InvalidReads, l1send : L1Results]

Send ==
    /\ ~crashed /\ last.op = "none"
    /\ \E len \in 0..MaxMsgLen, dest \in MsgAddrs, src \in MsgAddrs, seed \in Seeds, e \in SendEnv :
        LET msg == [len |-> len, dest |-> dest, src |-> src, data |-> Payload(len, seed)]
            r == dl2p_6227_send(diag_l2_proto_data, heap, diag_l2_p3min, diag_l2_p4min, msg, e)
        IN  /\ crashed' = r.crashed
            /\ last' = Call("send", msg, NoArgs, r.rv, 0, MNULL, ~r.crashed, r.log, NoKB)
    /\ UNCHANGED <<conn, diag_l2_proto_data, diag_l2_speed, diag_l2_kb, heap>>

(* -------------------------------- recv --------------------------------- *)
\* (size_t)(rv - 4).  SIZE_T_MOD stands for 2^64: TLC's integers are
\* 32 bits wide, and all that is used of a wrapped length is that it is
\* larger than any object (more than PTRDIFF_MAX).
SIZE_T_MOD == 2147483647
PTRDIFF_MAX == SIZE_T_MOD \div 2
SizeT(x) == x % SIZE_T_MOD

\* buf[] after diag_l1_recv returned rv: the bytes read, then bytes never written
INDET == 204
Raw(rv, seed) == [i \in 1..BUFSIZE |-> IF i <= rv THEN (seed + 7 * i) % 256 ELSE INDET]
RecvResults == {DIAG_ERR_TIMEOUT} \cup (0..BUFSIZE)

\* diag_allocmsg(n) gives a message unless memory is short; no object is
\* longer than PTRDIFF_MAX
AllocMsgOk(n, e) == e.allocmsg /\ n <= PTRDIFF_MAX

\* dl2p_6227_request_callback: *out = diag_dupsinglemsg(in)
dl2p_6227_request_callback(in, e) ==
    LET out == IF e.dup THEN "dup" ELSE MNULL
    IN  [out |-> out, log |-> <<Ev("diag_dupsinglemsg", in, out)>>]

\* source and destination taken from the wrong bytes
Decode_Swapped(buf, n) ==
    [len |-> n, data |-> SubSeq(buf, 4, 3 + n), src |-> buf[2], dest |-> buf[3],
     fmt |-> "DIAG_FMT_FRAMED"]

\* memcpy(msg->data, &buf[3], n); msg->src = buf[2]; msg->dest = buf[1];
\* msg->fmt = DIAG_FMT_FRAMED   (buf[k] is the element k+1 of the sequence)
Decode(buf, n) ==
    [len |-> n, data |-> SubSeq(buf, 4, 3 + n), src |-> buf[3], dest |-> buf[2],
     fmt |-> "DIAG_FMT_FRAMED"]

dl2p_6227_recv(timeout, callback, e) ==
    LET rv  == e.l1recv
        buf == Raw(rv, e.seed)
        n   == SizeT(rv - 4)
        l1  == <<Ev("diag_l1_recv", timeout + RECV_PAD_MS, [rv |-> rv, buf |-> buf])>>
        msg == Decode(buf, n)
        cb  == IF callback = "dl2p_6227_request_callback"
               THEN dl2p_6227_request_callback("msg", e)
               ELSE [out |-> "unset", log |-> <<>>]
        del == IF callback = "NULL" THEN <<>> ELSE <<Ev("callback", callback, msg)>>
    IN  IF rv < 0
        THEN [rv |-> rv, log |-> l1, out |-> "unset", crashed |-> FALSE]
        ELSE IF ~AllocMsgOk(n, e)
        THEN [rv |-> DIAG_ERR_NOMEM, log |-> l1 \o <<Ev("diag_allocmsg", n, MNULL)>>,
              out |-> "unset", crashed |-> FALSE]
        ELSE IF 3 + n > BUFSIZE
        THEN \* memcpy would read past buf[]
             [rv |-> 0, log |-> l1 \o <<Ev("diag_allocmsg", n, "msg"), Ev("memcpy", 3, n)>>,
              out |-> "unset", crashed |-> TRUE]
        ELSE [rv |-> 0,
              log |-> l1 \o <<Ev("diag_allocmsg", n, "msg"), Ev("memcpy", 3, n)>> \o del
                         \o cb.log \o <<Ev("diag_freemsg", "msg", 0)>>,
              out |-> cb.out, crashed |-> FALSE]

RecvEnv == [l1recv : RecvResults, seed : Seeds, allocmsg : BOOLEAN, dup : {TRUE}]

Recv ==
    /\ ~crashed /\ last.op = "none"
    /\ \E timeout \in {0, 200}, callback \in {"NULL", "caller"}, e \in RecvEnv :
        LET r == dl2p_6227_recv(timeout, callback, e)
        IN  /\ crashed' = r.crashed
            /\ last' = Call("recv", NoMsg, [NoArgs EXCEPT !.timeout = timeout, !.callback = callback],
                            r.rv, 0, MNULL, ~r.crashed, r.log, NoKB)
    /\ UNCHANGED <<conn, diag_l2_proto_data, diag_l2_speed, diag_l2_kb, heap>>

(* ------------------------------- request ------------------------------- *)
\* the result of the send not looked at
SendFailed_Never(rv) == FALSE

\* rv = diag_l2_send(d_l2_conn, msg); if (rv < 0)
SendFailed(rv) == rv < 0

dl2p_6227_request(pd, hp, p3min, p4min, msg, e) ==
    LET \* s: what diag_l2_send did, r: what dl2p_6227_recv did
        transaction(s, r) ==
            LET \* rmsg has no initializer: it holds a value only once the callback ran
                rmsg == IF r.out = "unset" THEN e.uninit ELSE r.out
                \* the two phases: the call made, its argument and what it returned
                slog == s.log \o <<Ev("diag_l2_send", msg, s.rv)>>
                rlog == <<Ev("dl2p_6227_recv", REQUEST_TIMEOUT_MS, r.rv)>> \o r.log
            IN  IF s.crashed
                THEN [ret |-> MNULL, errval |-> 0, log |-> s.log, crashed |-> TRUE]
                ELSE IF SendFailed(s.rv)
                THEN [ret |-> MNULL, errval |-> s.rv, log |-> slog, crashed |-> FALSE]
                ELSE IF r.crashed
                THEN [ret |-> MNULL, errval |-> 0, log |-> slog \o rlog, crashed |-> TRUE]
                ELSE IF r.rv < 0
                THEN [ret |-> rmsg, errval |-> r.rv, log |-> slog \o rlog, crashed |-> FALSE]
                ELSE [ret |-> rmsg, errval |-> IF rmsg = MNULL THEN DIAG_ERR_NOMEM ELSE 0,
                      log |-> slog \o rlog, crashed |-> FALSE]
    IN  transaction(diag_l2_send(pd, hp, p3min, p4min, msg, e),
                    dl2p_6227_recv(REQUEST_TIMEOUT_MS, "dl2p_6227_request_callback", e))

\* answers of the collaborators during one transaction
ReqRecvResults == {DIAG_ERR_TIMEOUT, 3, 4, 5, BUFSIZE}
ReqEnv == [invalidread : InvalidReads, l1send : L1Results, l1recv : ReqRecvResults,
           seed : {1}, allocmsg : BOOLEAN, dup : BOOLEAN, uninit : Indeterminate,
           wildfree : {"crash", "corrupt"}]

Request ==
    /\ ~crashed /\ last.op = "none"
    /\ \E len \in {0, 1, MAXPAYLOAD, MAXPAYLOAD + 1}, dest \in MsgAddrs, src \in MsgAddrs, e \in ReqEnv :
        LET msg == [len |-> len, dest |-> dest, src |-> src, data |-> Payload(len, 1)]
                done(q) ==
                /\ crashed' = q.crashed
                /\ last' = Call("request", msg, NoArgs, 0, q.errval, q.ret, ~q.crashed, q.log, NoKB)
        IN  done(dl2p_6227_request(diag_l2_proto_data, heap, diag_l2_p3min, diag_l2_p4min, msg, e))
    /\ UNCHANGED <<conn, diag_l2_proto_data, diag_l2_speed, diag_l2_kb, heap>>

(* ------------------------------ startcomms ----------------------------- *)
\* one capability taken to be enough
CapsOk_Either(l1f) == "DIAG_L1_DOESFULLINIT" \in l1f \/ "DIAG_L1_DOESL2CKSUM" \in l1f

\* (l1flags & DIAG_L1_DOESFULLINIT) and (l1flags & DIAG_L1_DOESL2CKSUM) both set
CapsOk(l1f) == ~(~("DIAG_L1_DOESFULLINIT" \in l1f) \/ ~("DIAG_L1_DOESL2CKSUM" \in l1f))

\* only the fast init refused
InitOk_NotFast(flags) == flags.init # "DIAG_L2_TYPE_FASTINIT"

\* (flags & DIAG_L2_TYPE_INITMASK) == DIAG_L2_TYPE_SLOWINIT
InitOk(flags) == flags.init = "DIAG_L2_TYPE_SLOWINIT"

\* the reported key bytes stored and checked
KeyBytes_Reported(reported) == reported

\* the key bytes the driver stores after the bus init: the transport's are not looked at
KeyBytes(reported) == <<KB1, KB2>>

\* the error exit without the free
ErrExit_NoFree(hp, dp) == [heap |-> hp, pd |-> NULL]

\* err: free(dp); d_l2_conn->diag_l2_proto_data = NULL;
ErrExit(hp, dp) == [heap |-> Free(hp, dp, "startcomms"), pd |-> NULL]

\* every bit rate replaced by the default
Bitrate_Default(bitrate) == DEFAULT_BITRATE

\* if (bitrate == 0) bitrate = 10400;
Bitrate(bitrate) == IF bitrate = 0 THEN DEFAULT_BITRATE ELSE bitrate

dl2p_6227_startcomms(pd, hp, speed, kb, l1f, flags, bitrate, target, source, e) ==
    LET dp   == Len(hp) + 1
        hp1  == Append(hp, [state |-> "live", srcaddr |-> source, dstaddr |-> target,
                            frees |-> 0, freedBy |-> "none"])
        br   == Bitrate(bitrate)
        set  == [speed |-> br, databits |-> "diag_databits_8", stopbits |-> "diag_stopbits_1",
                 parflag |-> "diag_par_n"]
        in   == [type |-> "DIAG_L1_INITBUS_5BAUD", addr |-> with_parity(target, "diag_par_o")]
        logA == <<Ev("diag_calloc", dp, 0), Ev("diag_l2_ioctl", "DIAG_IOCTL_SETSPEED", set)>>
        logB == logA \o <<Ev("diag_l2_ioctl", "DIAG_IOCTL_IFLUSH", 0),
                          Ev("diag_os_millisleep", SETTLE_MS, 0),
                          Ev("diag_l2_ioctl", "DIAG_IOCTL_INITBUS", in)>>
        kbs  == KeyBytes(e.kb)
        same == [rv |-> 0, pd |-> pd, heap |-> hp, speed |-> speed, kb |-> kb, log |-> <<>>,
                 reported |-> NoKB]
        err(rv, log, k, rep) ==
            LET x == ErrExit(hp1, dp)
            IN  [rv |-> rv, pd |-> x.pd, heap |-> x.heap, speed |-> br, kb |-> k,
                 log |-> log \o <<Ev("free", dp, 0)>>, reported |-> rep]
    IN  IF ~CapsOk(l1f) THEN [same EXCEPT !.rv = DIAG_ERR_PROTO_NOTSUPP]
        ELSE IF ~InitOk(flags) THEN [same EXCEPT !.rv = DIAG_ERR_INIT_NOTSUPP]
        ELSE IF ~e.calloc
        THEN [same EXCEPT !.rv = DIAG_ERR_NOMEM, !.log = <<Ev("diag_calloc", NULL, 0)>>]
        ELSE IF e.setspeed # 0 THEN err(e.setspeed, logA, kb, NoKB)
        ELSE IF e.initbus < 0 THEN err(e.initbus, logB, kb, NoKB)
        ELSE IF kbs[1] # KB1 \/ kbs[2] # KB2 THEN err(DIAG_ERR_WRONGKB, logB, kbs, e.kb)
        ELSE [rv |-> 0, pd |-> dp, heap |-> hp1, speed |-> br, kb |-> kbs, log |-> logB,
              reported |-> e.kb]

\* key bytes an ECU may answer the 5 baud init with: D3 B0, or those of another protocol
ReportedKB == {<<KB1, KB2>>, <<143, 233>>}
StartEnv == [calloc : BOOLEAN, setspeed : L1Results, initbus : {0, DIAG_ERR_TIMEOUT},
             kb : ReportedKB]

StartComms ==
    /\ ~crashed /\ last.op = "none"
    /\ \E init \in InitTypes, other \in BOOLEAN, bitrate \in Bitrates, peer \in Peers, e \in StartEnv :
        \* the allocator has MaxBlocks blocks to give
        /\ e.calloc => Len(heap) < MaxBlocks
        /\ LET flags == [init |-> init, other |-> other]
               r == dl2p_6227_startcomms(diag_l2_proto_data, heap, diag_l2_speed, diag_l2_kb,
                                         l1flags, flags, bitrate, peer[1], peer[2], e)
           IN  /\ diag_l2_proto_data' = r.pd
               /\ heap' = r.heap
               /\ diag_l2_speed' = r.speed
               /\ diag_l2_kb' = r.kb
               /\ last' = Call("startcomms", NoMsg,
                               [NoArgs EXCEPT !.flags = flags, !.bitrate = bitrate,
                                               !.target = peer[1], !.source = peer[2]],
                               r.rv, 0, MNULL, TRUE, r.log, r.reported)
    /\ UNCHANGED <<conn, crashed>>

(* -------------------------- stopcomms, timeout ------------------------- *)
\* if (pX->diag_l2_proto_data) { free(...); pX->diag_l2_proto_data = NULL; }
Release(pd, hp, who) ==
    IF pd # NULL
    THEN [pd |-> NULL, heap |-> Free(hp, pd, who), log |-> <<Ev("free", pd, 0)>>]
    ELSE [pd |-> pd, heap |-> hp, log |-> <<>>]

\* if (rxmsg != NULL) diag_freemsg(rxmsg);  a handle that is no message may kill
\* the process or damage the allocator's data
FreeReply(rxmsg, e) ==
    IF rxmsg # MNULL
    THEN [log |-> <<Ev("diag_freemsg", rxmsg, 0)>>, crashed |-> rxmsg = WILD /\ e.wildfree = "crash"]
    ELSE [log |-> <<>>, crashed |-> FALSE]

dl2p_6227_stopcomms(pd, hp, p3min, p4min, e) ==
    LET msg  == [len |-> 1, dest |-> 0, src |-> 0, data |-> <<STOP_BYTE>>]
        \* q: what dl2p_6227_request did
        after(q) ==
            LET wait == IF q.ret = MNULL \/ q.errval # 0
                        THEN <<Ev("diag_os_millisleep", STOP_WAIT_MS, 0)>> ELSE <<>>
                f    == FreeReply(q.ret, e)
                rel  == Release(pd, hp, "stopcomms")
                dead(log) == [rv |-> 0, errval |-> q.errval, rxmsg |-> q.ret, pd |-> pd,
                              heap |-> hp, log |-> log, crashed |-> TRUE]
            IN  IF q.crashed THEN dead(q.log)
                ELSE IF f.crashed THEN dead(q.log \o wait \o f.log)
                ELSE [rv |-> 0, errval |-> q.errval, rxmsg |-> q.ret, pd |-> rel.pd,
                      heap |-> rel.heap, log |-> q.log \o wait \o f.log \o rel.log,
                      crashed |-> FALSE]
    IN  after(dl2p_6227_request(pd, hp, p3min, p4min, msg, e))

StopComms ==
    /\ ~crashed /\ last.op = "none"
    /\ \E e \in ReqEnv :
        LET done(r) ==
                /\ diag_l2_proto_data' = r.pd
                /\ heap' = r.heap
                /\ crashed' = r.crashed
                /\ last' = Call("stopcomms", NoMsg, NoArgs, r.rv, r.errval, r.rxmsg, ~r.crashed,
                                r.log, NoKB)
        IN  done(dl2p_6227_stopcomms(diag_l2_proto_data, heap, diag_l2_p3min, diag_l2_p4min, e))
    /\ UNCHANGED <<conn, diag_l2_speed, diag_l2_kb>>

dl2p_6227_timeout(pd, hp, p3min, p4min, e) ==
    LET msg == [len |-> 1, dest |-> 0, src |-> 0, data |-> <<IDLE_BYTE>>]
        \* q: what dl2p_6227_request did
        after(q) ==
            LET f == FreeReply(q.ret, e)
            IN  IF q.crashed
                THEN [errval |-> q.errval, rxmsg |-> q.ret, log |-> q.log, crashed |-> TRUE]
                ELSE [errval |-> q.errval, rxmsg |-> q.ret, log |-> q.log \o f.log,
                      crashed |-> f.crashed]
    IN  after(dl2p_6227_request(pd, hp, p3min, p4min, msg, e))

Timeout ==
    /\ ~crashed /\ last.op = "none"
    /\ \E e \in ReqEnv :
        LET done(r) ==
                /\ crashed' = r.crashed
                /\ last' = Call("timeout", NoMsg, NoArgs, 0, r.errval, r.rxmsg, ~r.crashed,
                                r.log, NoKB)
        IN  done(dl2p_6227_timeout(diag_l2_proto_data, heap, diag_l2_p3min, diag_l2_p4min, e))
    /\ UNCHANGED <<conn, diag_l2_proto_data, diag_l2_speed, diag_l2_kb, heap>>

\* the call is over: control is back with the caller
Return ==
    /\ ~crashed /\ last.op # "none"
    /\ last' = Idle
    /\ UNCHANGED <<conn, diag_l2_proto_data, diag_l2_speed, diag_l2_kb, heap, crashed>>

(* ------------------------- with_parity on its own ---------------------- *)
ParityModes == {"diag_par_o", "diag_par_e"}

InitParity == Init /\ l1flags = {}

\* with_parity(c, eo) for a byte and a parity mode
ApplyParity ==
    /\ ~crashed /\ last.op = "none"
    /\ \E c \in 0..255, eo \in ParityModes :
        last' = Call("with_parity", NoMsg, [NoArgs EXCEPT !.c = c, !.eo = eo],
                     with_parity(c, eo), 0, MNULL, TRUE, <<>>, NoKB)
    /\ UNCHANGED <<conn, diag_l2_proto_data, diag_l2_speed, diag_l2_kb, heap, crashed>>

NextParity ==
    \/ ApplyParity
    \/ Return

SpecParity == InitParity /\ [][NextParity]_vars

Next ==
    \/ StartComms
    \/ StopComms
    \/ Send
    \/ Recv
    \/ Request
    \/ Timeout
    \/ Return

Spec == Init /\ [][Next]_vars

(* ======================= properties of the driver ====================== *)
Events(name) == {i \in 1..Len(last.log) : last.log[i].ev = name}
NewBlocks == (last.pre.nblocks + 1)..Len(heap)
\* stop-session released the state of the latest session and none was started since
ReleasedByStop ==
    /\ diag_l2_proto_data = NULL
    /\ Len(heap) > 0
    /\ heap[Len(heap)].freedBy = "stopcomms"

\* C1: on a connection whose session was started, stop-session called twice
\* releases the session state exactly once: the first call returns with the
\* block released once and the reference null, the second call returns with
\* nothing released and the reference still null.
C1_StopTwiceReleasesOnce ==
    (last.op = "stopcomms" /\ (last.pre.pd # NULL \/ ReleasedByStop)) =>
        /\ last.returned
        /\ diag_l2_proto_data = NULL
        /\ last.pre.pd # NULL =>
              /\ heap[last.pre.pd].frees = 1
              /\ Cardinality(Events("free")) = 1
        /\ last.pre.pd = NULL => Events("free") = {}

\* C2: once stop-session has released the session state, no operation reads
\* through the connection's session-state reference.
C2_NoReadAfterStop ==
    ReleasedByStop =>
        \A i \in Events("read_proto_data") : last.log[i].b

\* C3: request has three outcomes: the duplicated reply with error value 0;
\* null with the allocation error when duplication fails; null with the
\* failing phase's error code when send or receive fails.  The returned
\* message is null whenever the error value is not 0.
C3_RequestOutcomes ==
    (last.op = "request" /\ last.pre.pd # NULL /\ last.returned) =>
        \/ last.ret = "dup" /\ last.errval = 0
        \/ last.ret = MNULL /\ last.errval < 0

\* C4: the handle stop-session and idle-timeout pass to diag_freemsg is always a
\* message that duplication returned in the same transaction, and receive
\* releases the message it decoded once, after the callback.
C4_OnlyAllocatedMessagesReleased ==
    (last.op \in {"stopcomms", "timeout", "recv", "request"} /\ last.pre.pd # NULL) =>
        \A i \in Events("diag_freemsg") :
            /\ \E j \in 1..(i - 1) :
                  /\ last.log[j].ev \in {"diag_allocmsg", "diag_dupsinglemsg"}
                  /\ last.log[j].b = last.log[i].a
            /\ \A k \in Events("diag_freemsg") : last.log[k].a = last.log[i].a => k = i

\* C5: when start-session returns an error, every block it allocated has been
\* released (once) and the connection's reference is no block of that call.
C5_StartFailureReleases ==
    (last.op = "startcomms" /\ last.rv # 0) =>
        /\ \A b \in NewBlocks : heap[b].state = "freed" /\ heap[b].frees = 1
        /\ diag_l2_proto_data \notin NewBlocks
        /\ Cardinality(Events("diag_calloc")) <= 1

C5_Witness ==
    /\ last.op = "startcomms" /\ last.rv # 0
    /\ NewBlocks # {}
    /\ \E i \in Events("diag_l2_ioctl") : last.log[i].a = "DIAG_IOCTL_INITBUS"

\* C6 as stated: after a successful slow-init, start-session fails with
\* wrong-keybytes (and releases the session state) whenever the reported key
\* bytes are not D3 B0, and succeeds only when they are.
C6_WrongKeyBytesRejected ==
    (last.op = "startcomms" /\ last.reported # NoKB) =>
        /\ last.reported # <<KB1, KB2>> =>
              /\ last.rv = DIAG_ERR_WRONGKB
              /\ \A b \in NewBlocks : heap[b].state = "freed"
        /\ last.rv = 0 => last.reported = <<KB1, KB2>>

\* C6 amended: after a successful slow-init, start-session succeeds whatever key
\* bytes the bus layer reports: it stores D3 B0 as the connection's key bytes
\* without looking at the reported pair, never returns wrong-keybytes, and
\* keeps the session state allocated.
C6_KeyBytesAssumed ==
    (last.op = "startcomms" /\ last.reported # NoKB) =>
        /\ last.rv = 0
        /\ diag_l2_kb = <<KB1, KB2>>
        /\ Live(heap, diag_l2_proto_data) /\ diag_l2_proto_data \in NewBlocks

C6_Witness ==
    /\ last.op = "startcomms" /\ last.rv = 0
    /\ last.reported = <<143, 233>>
    /\ diag_l2_kb = <<KB1, KB2>>

\* C7: start-session on a transport that lacks the full-init capability or
\* the checksum capability fails with capability-unsupported, allocates
\* nothing, leaves the reference and the speed as they were and calls no
\* transport operation.
C7_CapabilityRequired ==
    (/\ last.op = "startcomms"
     /\ \/ "DIAG_L1_DOESFULLINIT" \notin l1flags
        \/ "DIAG_L1_DOESL2CKSUM" \notin l1flags) =>
        /\ last.rv = DIAG_ERR_PROTO_NOTSUPP
        /\ NewBlocks = {}
        /\ diag_l2_proto_data = last.pre.pd
        /\ diag_l2_speed = last.pre.speed
        /\ last.log = <<>>

C7_Witness ==
    /\ last.op = "startcomms"
    /\ l1flags = {"DIAG_L1_DOESFULLINIT"}
    /\ last.args.flags.init = "DIAG_L2_TYPE_SLOWINIT"
    /\ last.rv = DIAG_ERR_PROTO_NOTSUPP

\* C8: with both capabilities present, start-session with an init mode other
\* than slow-init fails with init-not-supported before anything is allocated
\* and before any transport operation is called.
C8_SlowInitOnly ==
    (/\ last.op = "startcomms"
     /\ l1flags = {"DIAG_L1_DOESFULLINIT", "DIAG_L1_DOESL2CKSUM"}
     /\ last.args.flags.init # "DIAG_L2_TYPE_SLOWINIT") =>
        /\ last.rv = DIAG_ERR_INIT_NOTSUPP
        /\ NewBlocks = {}
        /\ diag_l2_proto_data = last.pre.pd
        /\ last.log = <<>>

C8_Witness ==
    /\ last.op = "startcomms"
    /\ l1flags = {"DIAG_L1_DOESFULLINIT", "DIAG_L1_DOESL2CKSUM"}
    /\ last.args.flags.init = "DIAG_L2_TYPE_FASTINIT"
    /\ last.rv = DIAG_ERR_INIT_NOTSUPP

\* C9: send with a payload length outside 1..14 fails with the length
\* error, and neither the inter-message delay nor the transport send is called.
C9_BadLengthRejected ==
    (last.op = "send" /\ last.msg.len \notin 1..14) =>
        /\ last.rv = DIAG_ERR_BADLEN
        /\ Events("diag_os_millisleep") = {}
        /\ Events("diag_l1_send") = {}

C9_Witness ==
    /\ last.op = "send" /\ last.msg.len = 15
    /\ last.rv = DIAG_ERR_BADLEN

\* C10: for a payload of L bytes, L in 1..14, the frame send hands to the
\* transport has L+3 bytes; byte 0 is 0x80 | (L+1), with the top bit set and
\* L+1 in the low 4 bits (the sum 0x80+L+1 does not carry); bytes 1 and 2 are
\* destination and source (the message's own, or the session's when the
\* message has none); bytes 3..L+2 are the payload.
C10_FrameLayout ==
    (last.op = "send" /\ last.msg.len \in 1..14) =>
        /\ last.returned => Cardinality(Events("diag_l1_send")) = 1
        /\ \A i \in Events("diag_l1_send") :
            LET frame == last.log[i].a
                L == last.msg.len
                sess == diag_l2_proto_data
            IN  /\ Len(frame) = L + 3
                /\ frame[1] = BitOr(128, L + 1)
                /\ 128 + L + 1 < 256
                /\ BitAnd(frame[1], 128) = 128
                /\ BitAnd(frame[1], 15) = L + 1
                /\ last.msg.dest # 0 => frame[2] = last.msg.dest
                /\ last.msg.src # 0 => frame[3] = last.msg.src
                /\ (last.msg.dest = 0 /\ Live(heap, sess)) => frame[2] = heap[sess].dstaddr
                /\ (last.msg.src = 0 /\ Live(heap, sess)) => frame[3] = heap[sess].srcaddr
                /\ SubSeq(frame, 4, L + 3) = last.msg.data

C10_Witness ==
    /\ last.op = "send" /\ last.msg.len = 14 /\ last.rv = 0
    /\ last.msg.dest = 0 /\ last.msg.src # 0
    /\ Live(heap, diag_l2_proto_data)
    /\ \E i \in Events("diag_l1_send") : last.log[i].a[1] = 143

\* C11: a raw read of rv bytes, 4 <= rv <= 18, is decoded into one message
\* of rv - 4 payload bytes, the raw bytes 3..rv-2, with destination raw byte 1
\* and source raw byte 2, marked frame-delimited; receive hands the callback
\* that message, once.
C11_DecodedMessage ==
    \A i \in Events("diag_l1_recv") :
        LET rv  == last.log[i].b.rv
            buf == last.log[i].b.buf
        IN  rv \in 4..BUFSIZE =>
            /\ Cardinality(Events("callback")) <= 1
            /\ (last.op = "recv" /\ last.rv = 0 /\ last.args.callback # "NULL") =>
                   Cardinality(Events("callback")) = 1
            /\ \A j \in Events("callback") :
                LET m == last.log[j].b
                IN  /\ j > i
                    /\ m.len = rv - 4
                    /\ Len(m.data) = rv - 4
                    /\ \A k \in 1..(rv - 4) : m.data[k] = buf[3 + k]
                    /\ m.dest = buf[2]
                    /\ m.src = buf[3]
                    /\ m.fmt = "DIAG_FMT_FRAMED"

C11_Witness ==
    /\ last.op = "recv" /\ last.rv = 0
    /\ \E i \in Events("diag_l1_recv") : last.log[i].b.rv = 7
    /\ \E j \in Events("callback") : last.log[j].b.len = 3 /\ Len(last.log[j].b.data) = 3

\* C12: stop-session on an open session always returns, with success; when
\* its 0xA0 transaction gave no reply or an error it waits 5000 ms, once; and
\* on every outcome the session-state reference is null when it returns.
C12_StopAlwaysReturns ==
    (last.op = "stopcomms" /\ last.pre.pd # NULL) =>
        /\ last.returned
        /\ last.rv = 0
        /\ diag_l2_proto_data = NULL
        /\ \A i \in Events("diag_l2_send") : last.log[i].a.data = <<STOP_BYTE>>
        /\ (last.ret = MNULL \/ last.errval # 0) =>
               Cardinality({i \in Events("diag_os_millisleep") : last.log[i].a = STOP_WAIT_MS}) = 1

\* C13: idle-timeout on an open session makes one transaction, of the single
\* byte 0xA1 with the default addresses, comes back to its caller on every
\* outcome, and leaves the session state allocated with its addresses as
\* they were.
C13_TimeoutHarmless ==
    [][(last'.op = "timeout" /\ diag_l2_proto_data # NULL) =>
          /\ last'.returned
          /\ Cardinality({i \in 1..Len(last'.log) : last'.log[i].ev = "diag_l2_send"}) = 1
          /\ \A i \in 1..Len(last'.log) :
                 last'.log[i].ev = "diag_l2_send" =>
                     /\ last'.log[i].a.data = <<IDLE_BYTE>>
                     /\ last'.log[i].a.dest = 0 /\ last'.log[i].a.src = 0
          /\ diag_l2_proto_data' = diag_l2_proto_data
          /\ heap' = heap
          /\ Live(heap', diag_l2_proto_data')]_vars

\* C14: in a transaction the receive comes only after a send that succeeded:
\* when the send fails the transaction reports the send's error code and the
\* transport is not read; when it succeeds one receive with a timeout of
\* 1000 ms follows it.
C14_ReceiveAfterSend ==
    (last.op \in {"request", "stopcomms", "timeout"}) =>
        LET S == Events("diag_l2_send")
            R == Events("dl2p_6227_recv")
            T == Events("diag_l1_recv")
        IN  /\ Cardinality(S) <= 1
            /\ (R \cup T) # {} => S # {}
            /\ \A i \in S :
                /\ \A j \in R \cup T : j > i
                /\ last.log[i].b < 0 =>
                      /\ R = {} /\ T = {}
                      /\ last.errval = last.log[i].b
                      /\ last.ret = MNULL
                /\ last.log[i].b >= 0 =>
                      /\ Cardinality(R) = 1 /\ Cardinality(T) = 1
                      /\ \A j \in R : last.log[j].a = REQUEST_TIMEOUT_MS
                      /\ \A j \in T : last.log[j].a = REQUEST_TIMEOUT_MS + RECV_PAD_MS

C14_Witness ==
    /\ last.op = "request" /\ last.errval = DIAG_ERR_GENERAL
    /\ Events("diag_l1_send") # {}
    /\ Events("diag_l1_recv") = {}

\* the number of 1 bits of x
RECURSIVE Ones(_)
Ones(x) == IF x = 0 THEN 0 ELSE (x % 2) + Ones(x \div 2)

\* C15: with_parity(c, eo) keeps the low 7 bits of c and sets the top bit to
\* seed XOR (XOR of the low 7 bits of c), seed 1 for odd and 0 for even; so
\* the odd and the even result differ in the top bit only, the top bit of c
\* does not matter, and the odd result has an odd number of 1 bits.
C15_Parity ==
    (last.op = "with_parity") =>
        LET c    == last.args.c
            r    == last.rv
            seed == IF last.args.eo = "diag_par_o" THEN 1 ELSE 0
            o    == with_parity(c, "diag_par_o")
            ev   == with_parity(c, "diag_par_e")
        IN  /\ r \in 0..255
            /\ r % 128 = c % 128
            /\ r \div 128 = (seed + Ones(c % 128)) % 2
            /\ o % 128 = ev % 128
            /\ o \div 128 # ev \div 128
            /\ r = with_parity(c % 128, last.args.eo)
            /\ last.args.eo = "diag_par_o" => Ones(r) % 2 = 1

C15_Witness ==
    /\ last.op = "with_parity"
    /\ last.args.c = 66 /\ last.args.eo = "diag_par_o"
    /\ last.rv = 194

\* C16: with both capabilities, the slow-init mode, and the speed
\* configuration and the slow-init successful, start-session returns success
\* with a session state block holding the caller's source and destination,
\* and the connection's speed is the requested bit rate, or 10400 for 0.
C16_StartSuccess ==
    (/\ last.op = "startcomms"
     /\ l1flags = {"DIAG_L1_DOESFULLINIT", "DIAG_L1_DOESL2CKSUM"}
     /\ last.args.flags.init = "DIAG_L2_TYPE_SLOWINIT"
     /\ last.reported # NoKB) =>
        /\ last.rv = 0
        /\ diag_l2_proto_data \in NewBlocks
        /\ heap[diag_l2_proto_data].state = "live"
        /\ heap[diag_l2_proto_data].srcaddr = last.args.source
        /\ heap[diag_l2_proto_data].dstaddr = last.args.target
        /\ last.args.bitrate = 0 => diag_l2_speed = 10400
        /\ last.args.bitrate # 0 => diag_l2_speed = last.args.bitrate

C16_Witness ==
    /\ last.op = "startcomms" /\ last.rv = 0
    /\ last.args.bitrate = 0 /\ diag_l2_speed = 10400
    /\ last.args.target = 16 /\ last.args.source = TESTER_ADDR
    /\ Live(heap, diag_l2_proto_data)

\* C17: in the frame send hands to the transport, byte 1 is the message's
\* destination when that is not 0 and the session's destination when it is,
\* byte 2 likewise for the source, each on its own; the payload is the
\* message's, and send leaves the session state as it was.
C17_AddressDefaults ==
    [][(last'.op = "send") =>
          /\ heap' = heap
          /\ diag_l2_proto_data' = diag_l2_proto_data
          /\ \A i \in 1..Len(last'.log) :
                 last'.log[i].ev = "diag_l1_send" =>
                     LET frame == last'.log[i].a
                         m == last'.msg
                         sess == diag_l2_proto_data
                     IN  /\ m.dest # 0 => frame[2] = m.dest
                         /\ m.src # 0 => frame[3] = m.src
                         /\ (m.dest = 0 /\ Live(heap, sess)) => frame[2] = heap[sess].dstaddr
                         /\ (m.src = 0 /\ Live(heap, sess)) => frame[3] = heap[sess].srcaddr
                         /\ SubSeq(frame, 4, Len(frame)) = m.data]_vars

C17_Witness ==
    /\ last.op = "send" /\ last.rv = 0
    /\ last.msg.dest = 122 /\ last.msg.src = 0
    /\ Live(heap, diag_l2_proto_data)
    /\ \E i \in Events("diag_l1_send") :
           /\ last.log[i].a[2] = 122
           /\ last.log[i].a[3] = heap[diag_l2_proto_data].srcaddr

\* C18: a send of a payload of 1..14 bytes that runs to its end waits the
\* connection's P3min once, then calls the transport send once, with the
\* connection's P4min; an error of the transport is returned as that error,
\* its success as 0.
C18_DelayThenSend ==
    (last.op = "send" /\ last.msg.len \in 1..14 /\ last.returned) =>
        LET D == Events("diag_os_millisleep")
            S == Events("diag_l1_send")
        IN  /\ Cardinality(D) = 1 /\ Cardinality(S) = 1
            /\ \A d \in D, t \in S :
                /\ d < t
                /\ last.log[d].a = diag_l2_p3min
                /\ last.log[t].b.p4 = diag_l2_p4min
                /\ last.log[t].b.rv # 0 => (last.rv = last.log[t].b.rv /\ last.rv # 0)
                /\ last.log[t].b.rv = 0 => last.rv = 0

C18_Witness ==
    /\ last.op = "send" /\ last.msg.len = 1 /\ last.returned
    /\ last.rv = DIAG_ERR_GENERAL
    /\ \E t \in Events("diag_l1_send") : last.log[t].b.rv = DIAG_ERR_GENERAL

\* C19: whatever length rv >= 0 the transport read returns, the short reads
\* 0..3 included, the payload length receive computes from it, allocates
\* the message with and copies out of its 18-byte buffer is within 0..14.
C19_PayloadLengthInRange ==
    \A i \in Events("diag_l1_recv") :
        (last.op = "recv" /\ last.log[i].b.rv >= 0) =>
            /\ \A j \in Events("diag_allocmsg") : last.log[j].a \in 0..MAXPAYLOAD
            /\ \A j \in Events("memcpy") :
                   last.log[j].b \in 0..MAXPAYLOAD /\ last.log[j].a + last.log[j].b < BUFSIZE

\* C20: over any sequence of start-session and stop-session calls, every
\* session state block is released exactly once: at most one block is
\* allocated at a time, an allocated block is the one the connection refers
\* to, and no block is released twice.
C20_NoBlockLeaked ==
    LET live == {b \in 1..Len(heap) : heap[b].state = "live"}
    IN  /\ Cardinality(live) <= 1
        /\ \A b \in live : b = diag_l2_proto_data
        /\ \A b \in 1..Len(heap) : heap[b].frees <= 1

====
